---- MODULE Spec2Model ----
(***************************************************************************)
(* A model of exhume_lvm: Lvm2::open (src/src/lib.rs) driven over a        *)
(* seekable byte source, the accessors of the opened handle, and the       *)
(* logical-volume stream built by open_lv.                                 *)
(*                                                                         *)
(* The byte source is a cursor over a fixed image.  The image is kept at   *)
(* the granularity the decoders look at it: the label sheet, the           *)
(* metadata-area header sheets, and the metadata text, whose "bytes" are   *)
(* whole top-level elements of the configuration text (one byte of the     *)
(* model stands for the run of bytes that spells one element).             *)
(***************************************************************************)
EXTENDS Integers, Sequences, FiniteSets, TLC

VARIABLES
    src,        \* the bytes of the physical volume (never written)
    pos,        \* the reader's position (acid_io cursor)
    opens,      \* number of Lvm2::open calls made so far
    entryPos,   \* reader position on entry of the latest open
    first,      \* outcome of the first open   (Option, as a sequence)
    last,       \* outcome of the latest open  (Option, as a sequence)
    stream,     \* the OpenLV held by the caller (Option, as a sequence)
    lastRead    \* outcome of the latest read on the stream (Option)

vars == <<src, pos, opens, entryPos, first, last, stream, lastRead>>

-----------------------------------------------------------------------------
(* Bounds of the model *)

MaxOpens    == 2    \* open calls per behaviour
MaxSections == 2    \* top-level elements in a metadata text
MaxPVs      == 2    \* PV records per volume group
MaxLocs     == 2    \* raw-location descriptors per metadata area
MaxExtents  == 3    \* extents per segment

(* Program constants *)

SheetSize == 512    \* "sheet": the 512-byte block read for each header

-----------------------------------------------------------------------------
(* Generic helpers *)

Min(a, b) == IF a < b THEN a ELSE b
Max(a, b) == IF a > b THEN a ELSE b

SeqsUpTo(S, n) == UNION {[1..k -> S] : k \in 0..n}

None == <<>>
Some(x) == <<x>>

-----------------------------------------------------------------------------
(* Error: the variants of the crate's error enum *)

ErrorKinds ==
    {"Io", "WrongMagic", "ParseError", "MultipleVGsError",
     "PVDoesntContainItself", "Serde", "MissingMetadata"}

-----------------------------------------------------------------------------
(* The byte source: an image of the PV and a cursor over it *)

\* The image decoded at a sheet-aligned offset: the label sheet lives in
\* sheet 1, a metadata-area header at each offset the image holds one for.
SheetAt(s, p) ==
    IF p = SheetSize THEN [kind |-> "label", label |-> s.label]
    ELSE IF p \in DOMAIN s.areas THEN [kind |-> "mda", mda |-> s.areas[p]]
    ELSE [kind |-> "other"]

Pad == [kind |-> "pad"]

\* The metadata text of the area at offset o starts one sheet into the area.
TextBase(o) == o + SheetSize

\* One byte of the image, read as text.
ByteAt(s, off) ==
    IF \E o \in DOMAIN s.text :
           off >= TextBase(o) /\ off < TextBase(o) + Len(s.text[o])
    THEN LET o == CHOOSE o \in DOMAIN s.text :
                      off >= TextBase(o) /\ off < TextBase(o) + Len(s.text[o])
         IN s.text[o][off - TextBase(o) + 1]
    ELSE Pad

\* Seek::seek(SeekFrom::Start(off)) on the cursor.
SeekStart(off) == off

\* Read::read_exact of n bytes at position p: fails (UnexpectedEof) when
\* fewer than n bytes remain, leaving the cursor at the end of the image.
ReadExact(s, p, n) ==
    IF p + n <= s.len
    THEN [ok |-> TRUE, pos |-> p + n]
    ELSE [ok |-> FALSE, pos |-> Max(p, s.len)]

\* reader.by_ref().take(n).read_to_string(..) at position p: appends the
\* bytes that are there, at most n, and stops at the end of the image.
ReadToStringTake(s, p, n) ==
    LET avail == Max(0, Min(n, s.len - p))
    IN [text |-> [i \in 1..avail |-> ByteAt(s, p + i - 1)],
        pos  |-> p + avail]

SeekOp(off)    == [op |-> "seek", at |-> off, len |-> 0]
ReadOp(at, n)  == [op |-> "read", at |-> at, len |-> n]

-----------------------------------------------------------------------------
(* header: the binary decoders *)

\* PhysicalVolumeLabelHeader::parse: the sheet must carry the label
\* signature and the type indicator.
PhysicalVolumeLabelHeader_parse(sheet) ==
    /\ sheet.kind = "label"
    /\ sheet.label.signature = "LABELONE"
    /\ sheet.label.type_indicator = "LVM2 001"

\* PhysicalVolumeHeader::parse at data_offset of the label sheet.
PhysicalVolumeHeader_parse(sheet) ==
    [pv_ident             |-> sheet.label.pv_ident,
     metadata_descriptors |-> sheet.label.metadata_descriptors]

\* MetadataAreaHeader::parse: the sheet must carry the area's magic.
MetadataAreaHeader_parse(sheet) ==
    sheet.kind = "mda" /\ sheet.mda.magic_ok

-----------------------------------------------------------------------------
(* metadata: the text parser and the typed projection *)

RECURSIVE SectionPrefixLen(_)
SectionPrefixLen(text) ==
    IF text = <<>> \/ Head(text).kind # "section" THEN 0
    ELSE 1 + SectionPrefixLen(Tail(text))

\* MetadataElements::parse: the elements the text starts with; what follows
\* the last element is handed back as trailing garbage.
MetadataElements_parse(text) ==
    LET n == SectionPrefixLen(text)
    IN [elements |-> SubSeq(text, 1, n),
        trailing |-> SubSeq(text, n + 1, Len(text))]

DistinctNames(recs) ==
    \A i, j \in 1..Len(recs) : recs[i].name = recs[j].name => i = j

\* ForceDeTypedMap::<String, MetadataRoot>::deserialize: every element must
\* project onto a MetadataRoot and no key of a typed map may repeat.
Deserializes(elements) ==
    /\ DistinctNames(elements)
    /\ \A i \in 1..Len(elements) :
          /\ elements[i].ok
          /\ DistinctNames(elements[i].physical_volumes)
          /\ DistinctNames(elements[i].logical_volumes)

-----------------------------------------------------------------------------
(* Lvm2::open *)

\* v.id.replace('-', "")
StripDashes(id) == SelectSeq(id, LAMBDA c : c # "-")

\* reader.seek(SeekFrom::Start(512)): the label's position whatever the
\* reader's position p on entry.
SeekLabelFromCurrent(p) == p + SheetSize
SeekLabel(p) == SeekStart(SheetSize)

\* pvh.metadata_descriptors.first()
LastDescriptor(pvh) ==
    IF pvh.metadata_descriptors = <<>> THEN None
    ELSE Some(pvh.metadata_descriptors[Len(pvh.metadata_descriptors)])
FirstDescriptor(pvh) ==
    IF pvh.metadata_descriptors = <<>> THEN None
    ELSE Some(Head(pvh.metadata_descriptors))

\* ensure!(meta_root.0.len() == 1, MultipleVGsSnafu)
AtLeastOneVG(meta_root) == Len(meta_root) >= 1
ExactlyOneVG(meta_root) == Len(meta_root) = 1

\* vg_config.physical_volumes.iter().find(|(_, v)| v.id.replace('-', "")
\*     == pvh.pv_ident): the first matching record, if any.
FindLastPV(vg_config, pv_ident) ==
    LET pvs == vg_config.physical_volumes
        hit == {i \in 1..Len(pvs) : StripDashes(pvs[i].id) = pv_ident}
    IN IF hit = {} THEN None
       ELSE Some(pvs[CHOOSE i \in hit : \A j \in hit : j <= i].name)
FindPV(vg_config, pv_ident) ==
    LET pvs == vg_config.physical_volumes
        hit == {i \in 1..Len(pvs) : StripDashes(pvs[i].id) = pv_ident}
    IN IF hit = {} THEN None
       ELSE Some(pvs[CHOOSE i \in hit : \A j \in hit : i <= j].name)

\* The loop over mah.location_descriptors: seek to the area's offset plus
\* the descriptor's, then append what take(data_area_size) yields.
RECURSIVE ReadLocations(_, _, _, _)
ReadLocations(s, base, locs, acc) ==
    IF locs = <<>> THEN acc
    ELSE LET at == SeekStart(base + Head(locs).data_area_offset)
             r  == ReadToStringTake(s, at, Head(locs).data_area_size)
         IN ReadLocations(s, base, Tail(locs),
                [text |-> acc.text \o r.text,
                 pos  |-> r.pos,
                 log  |-> acc.log \o <<SeekOp(at),
                                       ReadOp(at, Head(locs).data_area_size)>>])

Outcome(kind, handle, p, log, metadata) ==
    [kind |-> kind, handle |-> handle, pos |-> p, log |-> log,
     metadata |-> metadata]

Open(s, p0) ==
    LET p1   == SeekLabel(p0)
        r1   == ReadExact(s, p1, SheetSize)
        log1 == <<SeekOp(p1), ReadOp(p1, SheetSize)>>
    IN
    IF ~r1.ok THEN Outcome("Io", None, r1.pos, log1, None) ELSE
    IF ~PhysicalVolumeLabelHeader_parse(SheetAt(s, p1))
    THEN Outcome("ParseError", None, r1.pos, log1, None) ELSE
    LET pvh  == PhysicalVolumeHeader_parse(SheetAt(s, p1))
        desc == FirstDescriptor(pvh)
    IN
    IF desc = None THEN Outcome("MissingMetadata", None, r1.pos, log1, None) ELSE
    LET metadata_descriptor == desc[1]
        p2   == SeekStart(metadata_descriptor.offset)
        r2   == ReadExact(s, p2, SheetSize)
        log2 == log1 \o <<SeekOp(p2), ReadOp(p2, SheetSize)>>
    IN
    IF ~r2.ok THEN Outcome("Io", None, r2.pos, log2, None) ELSE
    IF ~MetadataAreaHeader_parse(SheetAt(s, p2))
    THEN Outcome("ParseError", None, r2.pos, log2, None) ELSE
    LET mah  == SheetAt(s, p2).mda
        r3   == ReadLocations(s, metadata_descriptor.offset,
                    mah.location_descriptors,
                    [text |-> <<>>, pos |-> r2.pos, log |-> log2])
        parsed    == MetadataElements_parse(r3.text)
        meta_root == parsed.elements
    IN
    IF ~Deserializes(meta_root)
    THEN Outcome("Serde", None, r3.pos, r3.log, Some(r3.text)) ELSE
    IF ~ExactlyOneVG(meta_root)
    THEN Outcome("MultipleVGsError", None, r3.pos, r3.log, Some(r3.text)) ELSE
    LET vg_config == meta_root[1]
        found     == FindPV(vg_config, pvh.pv_ident)
    IN
    IF found = None
    THEN Outcome("PVDoesntContainItself", None, r3.pos, r3.log, Some(r3.text))
    ELSE Outcome("Ok",
            Some([pvh |-> pvh, pv_name |-> found[1],
                  vg_name |-> vg_config.name, vg_config |-> vg_config]),
            r3.pos, r3.log, Some(r3.text))

-----------------------------------------------------------------------------
(* Accessors of the opened handle *)

pv_name(h) == h.pv_name

\* &self.vg_config.physical_volumes[&self.pv_name].id
pv_id(h) ==
    LET pvs == h.vg_config.physical_volumes
    IN pvs[CHOOSE i \in 1..Len(pvs) : pvs[i].name = h.pv_name].id

vg_name(h) == h.vg_name
vg_id(h) == h.vg_config.id

\* self.vg_config.extent_size * 512
extent_size(h) == h.vg_config.extent_size * SheetSize

lvs(h) == h.vg_config.logical_volumes

-----------------------------------------------------------------------------
(* Opening logical volumes *)

\* OpenLV { lv, lvm: self, reader, position: 0, current_segment_end: 0 }
open_lv(h, lv) ==
    [lv |-> lv, lvm |-> h, position |-> 0, current_segment_end |-> 0]

\* logical_volumes.get_key_value(name).map(|..| self.open_lv(..))
open_lv_by_name(h, name) ==
    LET hit == {i \in 1..Len(lvs(h)) : lvs(h)[i].name = name}
    IN IF hit = {} THEN None
       ELSE Some(open_lv(h, lvs(h)[CHOOSE i \in hit : TRUE]))

\* self.lvs().find(|lv| lv.id() == id).map(|lv| self.open_lv(lv, reader))
open_lv_by_id(h, id) ==
    LET hit == {i \in 1..Len(lvs(h)) : lvs(h)[i].id = id}
    IN IF hit = {} THEN None
       ELSE Some(open_lv(h, lvs(h)[CHOOSE i \in hit : \A j \in hit : i <= j]))

-----------------------------------------------------------------------------
(* lv: the logical-volume stream *)

RECURSIVE SumExtents(_)
SumExtents(segs) ==
    IF segs = <<>> THEN 0 ELSE Head(segs).extent_count + SumExtents(Tail(segs))

\* LV::size_in_extents: the extents of all segments
size_in_extents(lv) == SumExtents(lv.segments)

\* the virtual length of the stream, in bytes
size_in_bytes(h, lv) == size_in_extents(lv) * extent_size(h)

\* the first segment, in order, that holds the extent
SegmentOf(lv, extent) ==
    LET hit == {i \in 1..Len(lv.segments) :
                   /\ lv.segments[i].start_extent <= extent
                   /\ extent < lv.segments[i].start_extent
                                 + lv.segments[i].extent_count}
    IN IF hit = {} THEN None
       ELSE Some(lv.segments[CHOOSE i \in hit : \A j \in hit : i <= j])

\* the byte at which the extents of a PV start: pe_start is in sheets
pe_start_bytes(h, name) ==
    LET pvs == h.vg_config.physical_volumes
    IN pvs[CHOOSE i \in 1..Len(pvs) : pvs[i].name = name].pe_start * SheetSize

\* Offset translation inside segment S of byte b counted from the start of
\* the segment: the stripe it falls in, the physical byte on that stripe's
\* PV, and the bytes left before the mapping jumps.
StripedOffsetNoRun(h, S, b) ==
    LET k            == S.stripe_count
        stripe_bytes == S.stripe_size * SheetSize
        stripe_index == (b \div stripe_bytes) % k
        run          == b \div stripe_bytes
        in_stripe    == b % stripe_bytes
        stripe       == S.stripes[stripe_index + 1]
    IN [pv_name |-> stripe.pv_name,
        at      |-> pe_start_bytes(h, stripe.pv_name)
                      + stripe.pv_extent_offset * extent_size(h)
                      + run * stripe_bytes + in_stripe,
        left    |-> stripe_bytes - in_stripe]
StripedOffset(h, S, b) ==
    LET k            == S.stripe_count
        stripe_bytes == S.stripe_size * SheetSize
        stripe_index == (b \div stripe_bytes) % k
        run          == b \div (k * stripe_bytes)
        in_stripe    == b % stripe_bytes
        stripe       == S.stripes[stripe_index + 1]
    IN [pv_name |-> stripe.pv_name,
        at      |-> pe_start_bytes(h, stripe.pv_name)
                      + stripe.pv_extent_offset * extent_size(h)
                      + run * stripe_bytes + in_stripe,
        left    |-> stripe_bytes - in_stripe]

LinearOffset(h, S, b) ==
    LET stripe == S.stripes[1]
    IN [pv_name |-> stripe.pv_name,
        at      |-> pe_start_bytes(h, stripe.pv_name)
                      + stripe.pv_extent_offset * extent_size(h) + b,
        left    |-> S.extent_count * extent_size(h) - b]

\* the translation of virtual byte v of the LV, if a segment holds it
MapOffset(h, lv, v) ==
    LET extent == v \div extent_size(h)
        rem    == v % extent_size(h)
        seg    == SegmentOf(lv, extent)
    IN IF seg = None THEN None
       ELSE LET S == seg[1]
                local_extent == extent - S.start_extent
                b == local_extent * extent_size(h) + rem
            IN Some(IF S.stripe_count = 1 THEN LinearOffset(h, S, b)
                    ELSE StripedOffset(h, S, b))

\* The sub-reads of a read of n bytes at virtual position p: split where the
\* segment or the stripe ends; each is one seek and one read on the reader
\* the stream holds, whichever PV the stripe names.
RECURSIVE SubReads(_, _, _, _, _)
SubReads(s, h, lv, p, n) ==
    IF n = 0 \/ p >= size_in_bytes(h, lv) \/ MapOffset(h, lv, p) = None
    THEN <<>>
    ELSE LET m     == MapOffset(h, lv, p)[1]
             want  == Min(n, Min(m.left, size_in_bytes(h, lv) - p))
             got   == Max(0, Min(want, s.len - m.at))
             this  == [from |-> p, pv_name |-> m.pv_name, at |-> m.at,
                       len |-> want, bytes |-> got]
         IN IF got < want THEN <<this>>
            ELSE <<this>> \o SubReads(s, h, lv, p + want, n - want)

RECURSIVE SumBytes(_)
SumBytes(reads) ==
    IF reads = <<>> THEN 0 ELSE Head(reads).bytes + SumBytes(Tail(reads))

\* Read::read on the stream: an extent inside the LV that no segment holds
\* cannot be translated and is reported as an Io error.
StreamRead(s, st, n) ==
    LET reads == SubReads(s, st.lvm, st.lv, st.position, n)
    IN IF /\ n > 0 /\ st.position < size_in_bytes(st.lvm, st.lv)
          /\ MapOffset(st.lvm, st.lv, st.position) = None
       THEN [kind |-> "Io", from |-> st.position, reads |-> <<>>, bytes |-> 0]
       ELSE [kind |-> "Ok", from |-> st.position, reads |-> reads,
             bytes |-> SumBytes(reads)]

-----------------------------------------------------------------------------
(* The images the model opens *)

IdChars == {"A", "B", "-"}

\* pv_ident of the binary PV header: an id without dashes
Idents == {<<"A", "B">>, <<"B", "A">>}

\* the textual ids of PV records: the same ids, dashes anywhere
Ids == {id \in UNION {[1..k -> IdChars] : k \in 2..3} :
            StripDashes(id) \in Idents}

PVNames == {"pv0", "pv1"}
VGNames == {"vg0", "vg1"}

PVRecord(name, id, pe_start) ==
    [name |-> name, id |-> id, pe_start |-> pe_start]

Section(name, ok, esize, pvs, lvols) ==
    [kind |-> "section", name |-> name, ok |-> ok, id |-> <<"V", name>>,
     extent_size |-> esize, physical_volumes |-> pvs,
     logical_volumes |-> lvols]

\* a well-formed one-PV volume group whose PV is <<"A", "-", "B">>
BasicVG(name) ==
    Section(name, TRUE, 8, <<PVRecord("pv0", <<"A", "-", "B">>, 0)>>, <<>>)

BasicSections == {BasicVG(n) : n \in VGNames}

AreaA == 2 * SheetSize
AreaB == 4 * SheetSize
FullLen == 8 * SheetSize

Descriptor(off) == [offset |-> off, size |-> 2 * SheetSize]

Location(off, size) == [data_area_offset |-> off, data_area_size |-> size]

Labels ==
    {[signature |-> sg, type_indicator |-> ty] :
        sg \in {"LABELONE", "LABELTWO"}, ty \in {"LVM2 001", "LVM2 002"}}

Image(len, lab, ident, mdas, magic, locs, textA) ==
    [len   |-> len,
     label |-> [signature |-> lab.signature,
                type_indicator |-> lab.type_indicator,
                pv_ident |-> ident,
                metadata_descriptors |-> mdas],
     areas |-> (AreaA :> [magic_ok |-> magic, location_descriptors |-> locs]
             @@ AreaB :> [magic_ok |-> TRUE, location_descriptors |->
                            <<Location(SheetSize, 1)>>]),
     text  |-> (AreaA :> textA @@ AreaB :> <<BasicVG("vg1")>>)]

DescriptorLists ==
    {<<>>, <<Descriptor(AreaA)>>, <<Descriptor(AreaB)>>,
     <<Descriptor(AreaA), Descriptor(AreaB)>>,
     <<Descriptor(AreaB), Descriptor(AreaA)>>}

\* image lengths: cut before the label sheet, after it, after the header of
\* area A, one byte into its text, and whole
Lengths ==
    {SheetSize, 2 * SheetSize, AreaA + SheetSize, TextBase(AreaA) + 1, FullLen}

LocationLists ==
    SeqsUpTo({Location(o, n) : o \in {SheetSize, SheetSize + 1}, n \in 1..2},
             MaxLocs)

\* images that differ in their binary layout
LayoutImages ==
    {Image(len, lab, <<"A", "B">>, mdas, TRUE,
           <<Location(SheetSize, 1)>>, <<BasicVG("vg0")>>) :
        len \in Lengths, lab \in Labels, mdas \in DescriptorLists}
    \cup
    {Image(len, [signature |-> "LABELONE", type_indicator |-> "LVM2 001"],
           <<"A", "B">>, mdas, magic, locs, textA) :
        len \in Lengths,
        mdas \in {<<Descriptor(AreaA)>>,
                  <<Descriptor(AreaA), Descriptor(AreaB)>>},
        magic \in BOOLEAN, locs \in LocationLists,
        textA \in SeqsUpTo(BasicSections, MaxSections)}

PVLists == SeqsUpTo({PVRecord(n, id, 0) : n \in PVNames, id \in Ids}, MaxPVs)

\* metadata texts that differ in the volume group they describe
VGTexts ==
    {<<Section("vg0", TRUE, 8, pvs, <<>>)>> : pvs \in PVLists}
    \cup {<<Section("vg0", ok, e, <<PVRecord("pv0", <<"A", "-", "B">>, 0)>>,
                    <<>>)>> :
            ok \in BOOLEAN, e \in 0..2}
    \cup {<<BasicVG("vg0"), Section("vg1", FALSE, 8, <<>>, <<>>)>>}
    \cup SeqsUpTo(BasicSections, MaxSections)

WholeImage(ident, textA) ==
    Image(FullLen, [signature |-> "LABELONE", type_indicator |-> "LVM2 001"],
          ident, <<Descriptor(AreaA)>>, TRUE,
          <<Location(SheetSize, MaxSections + 1)>>, textA)

VGImages == {WholeImage(ident, textA) : ident \in Idents, textA \in VGTexts}

LVNames == {"lv0", "lv1"}

Stripe(name, off) == [pv_name |-> name, pv_extent_offset |-> off]

Segment(start, count, stripes) ==
    [start_extent |-> start, extent_count |-> count, type |-> "striped",
     stripe_count |-> Len(stripes), stripe_size |-> 1, stripes |-> stripes]

LVRecord(name, segs) == [name |-> name, id |-> <<"L", name>>, segments |-> segs]

LinearStripes == {<<Stripe(n, off)>> : n \in PVNames, off \in {0, 100}}
PairStripes   == {<<Stripe("pv0", 100), Stripe(n, 200)>> : n \in PVNames}

\* the segment lists of an LV: what the text says, contiguous or not
SegmentLists ==
    {<<Segment(start, count, st)>> :
        start \in 0..1, count \in 1..MaxExtents,
        st \in LinearStripes \cup PairStripes}
    \cup {<<Segment(0, c1, <<Stripe("pv0", 0)>>),
            Segment(s2, c2, <<Stripe("pv0", 100)>>)>> :
            c1 \in 1..MaxExtents, c2 \in 1..MaxExtents, s2 \in 0..MaxExtents}

\* metadata texts that differ in the logical volumes they describe; the VG
\* spans two PVs and the image is the first of them
LVTexts ==
    {<<Section("vg0", TRUE, e,
               <<PVRecord("pv0", <<"A", "-", "B">>, pe),
                 PVRecord("pv1", <<"B", "-", "A">>, 0)>>,
               <<LVRecord("lv0", segs),
                 LVRecord("lv1", <<Segment(0, 1, <<Stripe("pv0", 0)>>)>>)>>)>> :
        e \in 1..2, pe \in {0, 128}, segs \in SegmentLists}

LVImageLen == 1024 * SheetSize

LVImages ==
    {[WholeImage(<<"A", "B">>, textA) EXCEPT !.len = LVImageLen] :
        textA \in LVTexts}

ReadLengths == {SheetSize, 2 * SheetSize}

\* where a caller may leave the reader before calling open
ReaderPositions == {SheetSize + 1, FullLen}

-----------------------------------------------------------------------------
(* The state machine *)

InitWith(images) ==
    /\ src \in images
    /\ pos = 0
    /\ opens = 0
    /\ entryPos = 0
    /\ first = None
    /\ last = None
    /\ stream = None
    /\ lastRead = None

Init == InitWith(LayoutImages \cup VGImages)

\* the caller moves the reader it owns
CallerSeek ==
    /\ stream = None
    /\ opens < MaxOpens
    /\ \E p \in ReaderPositions : pos' = SeekStart(p)
    /\ UNCHANGED <<src, opens, entryPos, first, last, stream, lastRead>>

\* Lvm2::open(&mut reader)
OpenCall ==
    /\ stream = None
    /\ opens < MaxOpens
    /\ LET out == Open(src, pos)
       IN /\ pos' = out.pos
          /\ last' = Some(out)
          /\ first' = IF first = None THEN Some(out) ELSE first
    /\ entryPos' = pos
    /\ opens' = opens + 1
    /\ UNCHANGED <<src, stream, lastRead>>

Next == OpenCall \/ CallerSeek

Spec == Init /\ [][Next]_vars

-----------------------------------------------------------------------------
(* Properties of Lvm2::open *)

Opened == last # None
Out == last[1]
Handle == last[1].handle[1]

\* what the image holds, read off the image itself
LabelReadable == src.len >= 2 * SheetSize
LabelValid ==
    src.label.signature = "LABELONE" /\ src.label.type_indicator = "LVM2 001"
Descriptors == src.label.metadata_descriptors
FirstArea == src.areas[Descriptors[1].offset]
AreaReadable ==
    /\ LabelReadable /\ LabelValid /\ Descriptors # <<>>
    /\ Descriptors[1].offset + SheetSize <= src.len
    /\ FirstArea.magic_ok

\* the elements of the text open handed to the parser
Elements == MetadataElements_parse(Out.metadata[1]).elements

Matches(pvrec) == StripDashes(pvrec.id) = src.label.pv_ident

\* C1: whenever the sheet at byte 512 does not carry the signature LABELONE
\* and the type indicator 'LVM2 001', open returns WrongMagic and no handle.
C1_WrongMagic ==
    (Opened /\ LabelReadable /\ ~LabelValid)
        => (Out.kind = "WrongMagic" /\ Out.handle = None)

\* C2: with a valid label and PV header and no metadata-area descriptor,
\* open fails with MissingMetadata having issued nothing but the seek to and
\* the read of the label sheet; with descriptors, every later seek and read
\* lies in the area of the first descriptor.
C2_MissingMetadata ==
    (Opened /\ LabelReadable /\ LabelValid) =>
        /\ Descriptors = <<>> =>
              /\ Out.kind = "MissingMetadata"
              /\ Out.handle = None
              /\ Out.log = <<SeekOp(SheetSize), ReadOp(SheetSize, SheetSize)>>
        /\ Descriptors # <<>> =>
              /\ Out.kind # "MissingMetadata"
              /\ Len(Out.log) >= 4
              /\ Out.log[3] = SeekOp(Descriptors[1].offset)
              /\ Out.log[4] = ReadOp(Descriptors[1].offset, SheetSize)
              /\ \A i \in 5..Len(Out.log) :
                    \E k \in 1..Len(FirstArea.location_descriptors) :
                        Out.log[i].at = Descriptors[1].offset
                            + FirstArea.location_descriptors[k].data_area_offset

C2_Witness ==
    Opened /\ Out.kind = "MissingMetadata" /\ Len(Out.log) = 2

\* C3: an open that reaches the cross-reference fails with
\* PVDoesntContainItself exactly when no PV record of the VG has an id that,
\* dashes removed, equals pv_ident; a successful open has pv_name() the name
\* of the first such record in insertion order and pv_id(), dashes removed,
\* equal to pv_ident.
C3_SelfReference ==
    (Opened /\ Out.kind \in {"Ok", "PVDoesntContainItself"}) =>
        LET pvs == Elements[1].physical_volumes
        IN /\ Out.kind = "PVDoesntContainItself" <=>
                  ~ \E i \in 1..Len(pvs) : Matches(pvs[i])
           /\ Out.kind = "Ok" =>
                  /\ \E i \in 1..Len(pvs) :
                        /\ Matches(pvs[i])
                        /\ \A j \in 1..(i - 1) : ~Matches(pvs[j])
                        /\ pv_name(Handle) = pvs[i].name
                  /\ StripDashes(pv_id(Handle)) = src.label.pv_ident

C3_Witness ==
    /\ Opened /\ Out.kind = "Ok"
    /\ LET pvs == Elements[1].physical_volumes
       IN /\ Len(pvs) = 2
          /\ Matches(pvs[1]) /\ Matches(pvs[2])
          /\ pvs[1].id # pvs[2].id
          /\ pv_name(Handle) = pvs[1].name

C8_Deterministic ==
    (first # None /\ last # None) =>
        /\ last[1].kind = first[1].kind
        /\ last[1].handle = first[1].handle

C8_Witness ==
    /\ opens = 2
    /\ entryPos = first[1].pos /\ entryPos # 0
    /\ Out.kind = "Ok"

\* the bytes [at, at + n) of the image, all of them
ExactBytes(at, n) == [i \in 1..n |-> ByteAt(src, at + i - 1)]

RECURSIVE ConcatExact(_)
ConcatExact(locs) ==
    IF locs = <<>> THEN <<>>
    ELSE ExactBytes(Descriptors[1].offset + Head(locs).data_area_offset,
                    Head(locs).data_area_size)
         \o ConcatExact(Tail(locs))

AllAvailable(locs) ==
    \A k \in 1..Len(locs) :
        Descriptors[1].offset + locs[k].data_area_offset
            + locs[k].data_area_size <= src.len

\* C9: the text handed to the parser is the concatenation, in descriptor
\* order, of exactly data_area_size bytes at (first metadata-area offset +
\* data_area_offset) for each raw-location descriptor; when the image ends
\* before one of these ranges does, open fails with Io.
C9_ExactRead ==
    (Opened /\ AreaReadable) =>
        IF AllAvailable(FirstArea.location_descriptors)
        THEN Out.metadata = Some(ConcatExact(FirstArea.location_descriptors))
        ELSE Out.kind = "Io"

\* C10: an opened handle has extent_size > 0 (and extent_size * 512 within
\* u64, which every extent size of this model is).
C10_ExtentSizeValid ==
    (Opened /\ Out.kind = "Ok") =>
        /\ Handle.vg_config.extent_size > 0
        /\ extent_size(Handle) > 0

-----------------------------------------------------------------------------
(* The state machine of an opened PV and the stream of one of its LVs *)

InitLV == InitWith(LVImages)

HandleHeld == last # None /\ last[1].kind = "Ok"

\* lvm.open_lv_by_name(name, &mut reader)
OpenLvByName ==
    /\ HandleHeld
    /\ \E name \in LVNames :
          /\ open_lv_by_name(Handle, name) # None
          /\ stream' = open_lv_by_name(Handle, name)
    /\ lastRead' = None
    /\ UNCHANGED <<src, pos, opens, entryPos, first, last>>

\* lvm.open_lv_by_id(id, &mut reader)
OpenLvById ==
    /\ HandleHeld
    /\ \E name \in LVNames :
          /\ open_lv_by_id(Handle, <<"L", name>>) # None
          /\ stream' = open_lv_by_id(Handle, <<"L", name>>)
    /\ lastRead' = None
    /\ UNCHANGED <<src, pos, opens, entryPos, first, last>>

\* the end, in bytes, of the segment that holds virtual byte v (0: none)
SegmentEndAt(h, lv, v) ==
    LET seg == SegmentOf(lv, v \div extent_size(h))
    IN IF seg = None THEN 0
       ELSE (seg[1].start_extent + seg[1].extent_count) * extent_size(h)

\* the positions a caller seeks the stream to: every sheet up to one past
\* the end of the LV
SeekTargets(st) ==
    {i * SheetSize :
        i \in 0..(size_in_bytes(st.lvm, st.lv) \div SheetSize + 1)}

\* Seek::seek(SeekFrom::Start(p)) on the stream
LvSeek ==
    /\ stream # None
    /\ \E p \in SeekTargets(stream[1]) :
          stream' = Some([stream[1] EXCEPT
                            !.position = p,
                            !.current_segment_end =
                                SegmentEndAt(stream[1].lvm, stream[1].lv, p)])
    /\ lastRead' = None
    /\ UNCHANGED <<src, pos, opens, entryPos, first, last>>

\* Read::read on the stream, into a buffer of n bytes
LvRead ==
    /\ stream # None
    /\ \E n \in ReadLengths :
          LET st == stream[1]
              r  == StreamRead(src, st, n)
          IN /\ lastRead' = Some(r)
             /\ stream' = Some([st EXCEPT
                    !.position = st.position + r.bytes,
                    !.current_segment_end =
                        IF r.bytes = 0 THEN st.current_segment_end
                        ELSE SegmentEndAt(st.lvm, st.lv,
                                          st.position + r.bytes - 1)])
             /\ pos' = IF r.reads = <<>> THEN pos
                       ELSE r.reads[Len(r.reads)].at
                              + r.reads[Len(r.reads)].bytes
    /\ UNCHANGED <<src, opens, entryPos, first, last>>

NextLV == OpenCall \/ OpenLvByName \/ OpenLvById \/ LvSeek \/ LvRead

SpecLV == InitLV /\ [][NextLV]_vars

-----------------------------------------------------------------------------
(* Properties of the logical volumes of an opened PV *)

Partitions(lv) ==
    /\ \A e \in 0..(size_in_extents(lv) - 1) :
          Cardinality({i \in 1..Len(lv.segments) :
              /\ lv.segments[i].start_extent <= e
              /\ e < lv.segments[i].start_extent
                       + lv.segments[i].extent_count}) = 1
    /\ \A i \in 1..Len(lv.segments) :
          lv.segments[i].start_extent + lv.segments[i].extent_count
              <= size_in_extents(lv)

\* C5: the segments of every LV of an opened handle, and of every LV
\* opened as a stream, partition [0, size_in_extents).
C5_SegmentsPartition ==
    /\ HandleHeld => \A i \in 1..Len(lvs(Handle)) : Partitions(lvs(Handle)[i])
    /\ stream # None => Partitions(stream[1].lv)

\* C6: a read whose offset translates into a stripe naming a PV other than
\* pv_name() fails with ForeignPV and returns no byte of the held reader.
C6_ForeignPV ==
    (stream # None /\ lastRead # None) =>
        LET m == MapOffset(stream[1].lvm, stream[1].lv, lastRead[1].from)
        IN (m # None /\ m[1].pv_name # pv_name(stream[1].lvm)) =>
              (lastRead[1].kind = "ForeignPV" /\ lastRead[1].bytes = 0)

\* a read that started inside a segment striped over the extents 100 and
\* 200, with one-sheet stripes, b bytes from the start of the segment
ReadInS4(b) ==
    /\ stream # None /\ lastRead # None
    /\ lastRead[1].kind = "Ok" /\ lastRead[1].reads # <<>>
    /\ LET h   == stream[1].lvm
           seg == SegmentOf(stream[1].lv, lastRead[1].from \div extent_size(h))
       IN /\ seg # None
          /\ seg[1].stripe_count = 2 /\ seg[1].stripe_size = 1
          /\ seg[1].stripes[1].pv_extent_offset = 100
          /\ seg[1].stripes[2].pv_extent_offset = 200
          /\ lastRead[1].from - seg[1].start_extent * extent_size(h) = b

MappedAt == lastRead[1].reads[1].at
Esize == extent_size(stream[1].lvm)
PeBytes == pe_start_bytes(stream[1].lvm, lastRead[1].reads[1].pv_name)

====
